---- MODULE Spec2Model ----
(***************************************************************************)
(* Model of src/ser.rs of bitcoin_uri: the Display implementation of Uri   *)
(* (BIP21 serialization) with its helpers EqSignChecker, ASCII_SET,        *)
(* WriterEncoder, DisplayEncoder, DisplayParam and write_param.            *)
(*                                                                         *)
(* Text is a sequence of Unicode code points, the sink holds bytes.  A     *)
(* value that implements fmt::Display is the sequence of the str chunks    *)
(* its fmt passes to write_str.                                            *)
(***************************************************************************)
EXTENDS Integers, Sequences, FiniteSets, TLC

VARIABLES
    address,    \* self.address: [normal, alt] display texts of the opaque address
    alternate,  \* f.alternate()
    amount,     \* self.amount displayed in Denomination::Bitcoin: <<>> (None) or <<chunks>>
    label,      \* self.label: <<>> (None) or <<param>>
    message,    \* self.message: <<>> (None) or <<param>>
    extras,     \* the pairs self.extras.serialize_params() yields, in order
    failOn,     \* the sink's write_str call that fails (0: none does)
    w,          \* the sink f: [out, calls, res, msg]
    no_params,  \* the local no_params of fmt
    pc,         \* position of fmt in FmtSteps
    idx,        \* position of the extras iterator
    ret,        \* result of fmt: "running", "Ok", "Err", "panic"
    fields,     \* history: for every write_param call, what it was given and the sink before it
    cin,        \* codec harness: the input handed to the encoder
    cout        \* codec harness: what the encoder wrote

vars == <<address, alternate, amount, label, message, extras, failOn, w,
          no_params, pc, idx, ret, fields, cin, cout>>

-----------------------------------------------------------------------------
(* Bounds of the model *)

\* longest extras sequence
MaxExtras == 2
\* latest sink write that may fail
MaxFailOn == 7
\* longest text / byte string / encoded source handed to the codec harness
MaxTextLen == 3

-----------------------------------------------------------------------------
(* Characters the code names *)

QMARK == 63
AMP == 38
EQSIGN == 61
PERCENT == 37

LitBitcoin == <<98, 105, 116, 99, 111, 105, 110, 58>>   \* "bitcoin:"
LitAmount == <<97, 109, 111, 117, 110, 116>>            \* "amount"
LitLabel == <<108, 97, 98, 101, 108>>                   \* "label"
LitMessage == <<109, 101, 115, 115, 97, 103, 101>>      \* "message"

-----------------------------------------------------------------------------
(* Sequences *)

RECURSIVE Flatten(_)
Flatten(chunks) ==
    IF chunks = <<>> THEN <<>> ELSE Head(chunks) \o Flatten(Tail(chunks))

Elems(s) == {s[i] : i \in DOMAIN s}

\* str as its UTF-8 bytes (str::as_bytes), per char
Utf8Char(c) ==
    IF c < 128 THEN <<c>>
    ELSE IF c < 2048 THEN <<192 + (c \div 64), 128 + (c % 64)>>
    ELSE IF c < 65536 THEN
        <<224 + (c \div 4096), 128 + ((c \div 64) % 64), 128 + (c % 64)>>
    ELSE <<240 + (c \div 262144), 128 + ((c \div 4096) % 64),
           128 + ((c \div 64) % 64), 128 + (c % 64)>>

RECURSIVE Utf8(_)
Utf8(s) == IF s = <<>> THEN <<>> ELSE Utf8Char(Head(s)) \o Utf8(Tail(s))

-----------------------------------------------------------------------------
(* Character-set policy: ASCII_SET *)

IsAsciiAlphanumeric(b) == b \in (48..57) \cup (65..90) \cup (97..122)

\* percent_encoding_rfc3986::NON_ALPHANUMERIC: every ASCII byte that is no letter or digit
NON_ALPHANUMERIC == {b \in 0..127 : ~IsAsciiAlphanumeric(b)}

Remove(set, b) == set \ {b}

ASCII_SET_no_qmark ==
    NON_ALPHANUMERIC \ {45, 46, 95, 126, 33, 36, 39, 40, 41, 42, 43, 44, 59, 58, 64, 47}

ASCII_SET_percent_removed ==
    NON_ALPHANUMERIC \ {45, 46, 95, 126, 33, 36, 39, 40, 41, 42, 43, 44, 59, 58, 64, 47, 63, 37}

ASCII_SET ==
    LET unreserved == Remove(Remove(Remove(Remove(NON_ALPHANUMERIC, 45), 46), 95), 126)
        sub_delims == Remove(Remove(Remove(Remove(Remove(Remove(Remove(Remove(Remove(
                          unreserved, 33), 36), 39), 40), 41), 42), 43), 44), 59)
        pchar == Remove(Remove(sub_delims, 58), 64)
    IN  Remove(Remove(pchar, 47), 63)

\* AsciiSet::should_percent_encode: every non-ASCII byte, and the ASCII bytes of the set
ShouldPercentEncode(b) == b >= 128 \/ b \in ASCII_SET

\* uppercase hexadecimal digit of a nibble
HexDigit(n) == IF n < 10 THEN 48 + n ELSE 55 + n

PercentEncodeByte(b) == <<PERCENT, HexDigit(b \div 16), HexDigit(b % 16)>>

\* length of the longest prefix of bytes that needs no encoding
RECURSIVE PlainRun(_)
PlainRun(bytes) ==
    IF bytes = <<>> \/ ShouldPercentEncode(Head(bytes)) THEN 0
    ELSE 1 + PlainRun(Tail(bytes))

\* the chunks the PercentEncode iterator yields: "%XX" for one byte that must be
\* encoded, else the longest run of bytes that need not be
RECURSIVE PercentEncode(_)
PercentEncode(bytes) ==
    IF bytes = <<>> THEN <<>>
    ELSE IF ShouldPercentEncode(Head(bytes))
         THEN <<PercentEncodeByte(Head(bytes))>> \o PercentEncode(Tail(bytes))
         ELSE LET n == PlainRun(bytes)
              IN  <<SubSeq(bytes, 1, n)>> \o PercentEncode(SubSeq(bytes, n + 1, Len(bytes)))

Utf8PercentEncode(s) == PercentEncode(Utf8(s))

IsHexDigit(b) == b \in (48..57) \cup (65..70) \cup (97..102)

HexValue(b) == IF b <= 57 THEN b - 48 ELSE IF b <= 70 THEN b - 55 ELSE b - 87

\* the bytes the PercentDecode iterator yields
RECURSIVE PercentDecode(_)
PercentDecode(bytes) ==
    IF bytes = <<>> THEN <<>>
    ELSE IF Head(bytes) = PERCENT /\ Len(bytes) >= 3
            /\ IsHexDigit(bytes[2]) /\ IsHexDigit(bytes[3])
         THEN <<16 * HexValue(bytes[2]) + HexValue(bytes[3])>>
              \o PercentDecode(SubSeq(bytes, 4, Len(bytes)))
         ELSE <<Head(bytes)>> \o PercentDecode(Tail(bytes))

-----------------------------------------------------------------------------
(* The sink and the writers wrapped around it *)

EmptySink == [out |-> <<>>, calls |-> 0, res |-> "ok", msg |-> <<>>]

\* write_str of the underlying sink: the call numbered failOn fails and writes
\* nothing, every other call appends the bytes of s
Sink_write_str(wr, s) ==
    IF wr.calls + 1 = failOn
    THEN [wr EXCEPT !.calls = @ + 1, !.res = "err"]
    ELSE [wr EXCEPT !.calls = @ + 1, !.out = @ \o Utf8(s)]

\* writes the chunks in order and stops at the first write that fails
RECURSIVE WriteAll(_, _)
WriteAll(wr, chunks) ==
    IF chunks = <<>> THEN wr
    ELSE LET w1 == Sink_write_str(wr, Head(chunks))
         IN  IF w1.res # "ok" THEN w1 ELSE WriteAll(w1, Tail(chunks))

PanicMessage(key) == <<"key '", Flatten(key), "' contains equal sign">>

EqSignChecker_write_str_unchecked(wr, s, key) == Sink_write_str(wr, s)

EqSignChecker_write_str_late(wr, s, key) ==
    IF EQSIGN \in Elems(s)
    THEN [Sink_write_str(wr, s) EXCEPT !.res = "panic", !.msg = PanicMessage(key)]
    ELSE Sink_write_str(wr, s)

\* EqSignChecker(wr, &key).write_str(s)
EqSignChecker_write_str(wr, s, key) ==
    IF EQSIGN \in Elems(s)
    THEN [wr EXCEPT !.res = "panic", !.msg = PanicMessage(key)]
    ELSE Sink_write_str(wr, s)

\* the chunks of the key's Display, each through the EqSignChecker
RECURSIVE EqSignChecker_write_chunks(_, _, _)
EqSignChecker_write_chunks(wr, chunks, key) ==
    IF chunks = <<>> THEN wr
    ELSE LET w1 == EqSignChecker_write_str(wr, Head(chunks), key)
         IN  IF w1.res # "ok" THEN w1
             ELSE EqSignChecker_write_chunks(w1, Tail(chunks), key)

\* write!(EqSignChecker(&mut *writer, &key), "?{}", key), and the same with "&{}"
WriteKey(wr, sep, key) ==
    LET w1 == EqSignChecker_write_str(wr, <<sep>>, key)
    IN  IF w1.res # "ok" THEN w1 ELSE EqSignChecker_write_chunks(w1, key, key)

WriterEncoder_write_str_raw(wr, s) == Sink_write_str(wr, s)

\* WriterEncoder(wr).write_str(s)
WriterEncoder_write_str(wr, s) == WriteAll(wr, Utf8PercentEncode(s))

\* write!(WriterEncoder(f), "{}", self.0): the chunks of the inner Display
RECURSIVE DisplayEncoder_fmt(_, _)
DisplayEncoder_fmt(wr, chunks) ==
    IF chunks = <<>> THEN wr
    ELSE LET w1 == WriterEncoder_write_str(wr, Head(chunks))
         IN  IF w1.res # "ok" THEN w1 ELSE DisplayEncoder_fmt(w1, Tail(chunks))

EncodedBorrowed_fmt_passthrough(wr, source) == Sink_write_str(wr, source)

\* DisplayParam::fmt, ParamInner::EncodedBorrowed(decoder)
EncodedBorrowed_fmt(wr, source) ==
    LET decoded == PercentDecode(Utf8(source))
    IN  WriteAll(wr, PercentEncode(decoded))

\* DisplayParam::fmt, ParamInner::UnencodedBytes(bytes)
UnencodedBytes_fmt(wr, bytes) == WriteAll(wr, PercentEncode(bytes))

UnencodedString_fmt_raw(wr, string) == Sink_write_str(wr, string)

\* DisplayParam::fmt, ParamInner::UnencodedString(string)
UnencodedString_fmt(wr, string) == WriteAll(wr, Utf8PercentEncode(string))

DisplayParam_fmt(wr, param) ==
    CASE param.tag = "EncodedBorrowed" -> EncodedBorrowed_fmt(wr, param.data)
      [] param.tag = "UnencodedBytes" -> UnencodedBytes_fmt(wr, param.data)
      [] param.tag = "UnencodedString" -> UnencodedString_fmt(wr, param.data)

\* the value handed to write_param
DisplayParam(param) == [kind |-> "DisplayParam", inner |-> param]
DisplayEncoder(chunks) == [kind |-> "DisplayEncoder", inner |-> chunks]

\* "{}" of the value of write_param
Value_fmt(wr, value) ==
    IF value.kind = "DisplayParam" THEN DisplayParam_fmt(wr, value.inner)
    ELSE DisplayEncoder_fmt(wr, value.inner)

-----------------------------------------------------------------------------
(* Field writer *)

write_param_no_flip(wr, key, value, np) ==
    LET w1 == WriteKey(wr, IF np THEN QMARK ELSE AMP, key)
    IN  IF w1.res # "ok" THEN [w |-> w1, no_params |-> np]
        ELSE LET w2 == Sink_write_str(w1, <<EQSIGN>>)
             IN  [w |-> IF w2.res # "ok" THEN w2 ELSE Value_fmt(w2, value),
                  no_params |-> np]

write_param_ignores_key_error(wr, key, value, np) ==
    LET w1 == WriteKey(wr, IF np THEN QMARK ELSE AMP, key)
    IN  IF w1.res = "panic" THEN [w |-> w1, no_params |-> np]
        ELSE LET w2 == Sink_write_str([w1 EXCEPT !.res = "ok"], <<EQSIGN>>)
             IN  [w |-> IF w2.res # "ok" THEN w2 ELSE Value_fmt(w2, value),
                  no_params |-> FALSE]

write_param(wr, key, value, np) ==
    LET w1 == IF np THEN WriteKey(wr, QMARK, key) ELSE WriteKey(wr, AMP, key)
    IN  IF w1.res # "ok" THEN [w |-> w1, no_params |-> np]
        ELSE LET np1 == IF np THEN FALSE ELSE np
                 w2 == Sink_write_str(w1, <<EQSIGN>>)
             IN  [w |-> IF w2.res # "ok" THEN w2 ELSE Value_fmt(w2, value),
                  no_params |-> np1]

\* value is <<>> for None and <<param>> for Some(param)
maybe_write_param(wr, key, value, np) ==
    IF value # <<>> THEN write_param(wr, key, DisplayParam(value[1]), np)
    ELSE [w |-> wr, no_params |-> np]

\* value is <<>> for None and <<chunks>> for Some(a Display writing these chunks)
maybe_display_param(wr, key, value, np) ==
    IF value # <<>> THEN write_param(wr, key, DisplayEncoder(value[1]), np)
    ELSE [w |-> wr, no_params |-> np]

-----------------------------------------------------------------------------
(* The values a Uri is rendered from *)

Param(tag, data) == [tag |-> tag, data |-> data]

\* address display texts: "ADDR" (the same in both modes), "bc1q" / "BC1Q"
Addresses ==
    { [normal |-> <<65, 68, 68, 82>>, alt |-> <<65, 68, 68, 82>>],
      [normal |-> <<98, 99, 49, 113>>, alt |-> <<66, 67, 49, 81>>] }

\* None, "0.01"
Amounts == { <<>>, << <<(<<48, 46, 48, 49>>)>> >> }

\* None, "Lunch", the encoded source "%3d%2f?", the bytes 0x26 0xFF
Labels ==
    { <<>>,
      <<Param("UnencodedString", <<76, 117, 110, 99, 104>>)>>,
      <<Param("EncodedBorrowed", <<37, 51, 100, 37, 50, 102, 63>>)>>,
      <<Param("UnencodedBytes", <<38, 255>>)>> }

\* None, "Hi there!", "e-acute & = ?"
Messages ==
    { <<>>,
      <<Param("UnencodedString", <<72, 105, 32, 116, 104, 101, 114, 101, 33>>)>>,
      <<Param("UnencodedString", <<233, 38, 61, 63>>)>> }

\* ("foo","bar"), ("baz","qux"), ("k&?", "5%" "e-acute=&"), ("a=b","x"), ("a" "=b","v")
Pairs ==
    { [key |-> <<(<<102, 111, 111>>)>>, value |-> <<(<<98, 97, 114>>)>>],
      [key |-> <<(<<98, 97, 122>>)>>, value |-> <<(<<113, 117, 120>>)>>],
      [key |-> <<(<<107, 38, 63>>)>>, value |-> << <<53, 37>>, <<233, 61, 38>> >>],
      [key |-> <<(<<97, 61, 98>>)>>, value |-> <<(<<120>>)>>],
      [key |-> << <<97>>, <<61, 98>> >>, value |-> <<(<<118>>)>>] }

ExtrasLists == UNION {[1..n -> Pairs] : n \in 0..MaxExtras}

NoProbe == [kind |-> "none", data |-> <<>>]
NoOutput == [done |-> FALSE, must |-> FALSE, enc |-> <<>>]

-----------------------------------------------------------------------------
(* impl fmt::Display for Uri: fmt, one action per statement *)

FmtSteps_message_first == <<"address", "amount", "message", "label", "extras">>

\* the statements of fmt in program order
FmtSteps == <<"address", "amount", "label", "message", "extras">>

At(step) == ret = "running" /\ FmtSteps[pc] = step

\* the `?` after a call: go on when it returned Ok, else fmt ends with its failure
Propagate(wr, next) ==
    /\ w' = wr
    /\ IF wr.res = "ok" THEN pc' = next /\ ret' = ret
       ELSE pc' = pc /\ ret' = (IF wr.res = "err" THEN "Err" ELSE "panic")

Call(key, value) ==
    [key |-> key, value |-> value, before |-> w.out, at |-> Len(w.out), np |-> no_params]

Inputs == <<address, alternate, amount, label, message, extras, failOn, cin, cout>>

\* write!(f, "bitcoin:{:#}", self.address) or write!(f, "bitcoin:{}", self.address)
FmtAddress ==
    /\ At("address")
    /\ LET w1 == Sink_write_str(w, LitBitcoin)
           w2 == IF w1.res # "ok" THEN w1
                 ELSE Sink_write_str(w1, IF alternate THEN address.alt ELSE address.normal)
       IN  Propagate(w2, pc + 1)
    /\ no_params' = TRUE
    /\ UNCHANGED <<Inputs, idx, fields>>

\* maybe_display_param(f, "amount", display_amount, &mut no_params)?
FmtAmount ==
    /\ At("amount")
    /\ LET r == maybe_display_param(w, <<LitAmount>>, amount, no_params)
       IN  Propagate(r.w, pc + 1) /\ no_params' = r.no_params
    /\ fields' = IF amount = <<>> THEN fields
                 ELSE Append(fields, Call(<<LitAmount>>, DisplayEncoder(amount[1])))
    /\ UNCHANGED <<Inputs, idx>>

\* maybe_write_param(f, "label", self.label.as_ref(), &mut no_params)?
FmtLabel ==
    /\ At("label")
    /\ LET r == maybe_write_param(w, <<LitLabel>>, label, no_params)
       IN  Propagate(r.w, pc + 1) /\ no_params' = r.no_params
    /\ fields' = IF label = <<>> THEN fields
                 ELSE Append(fields, Call(<<LitLabel>>, DisplayParam(label[1])))
    /\ UNCHANGED <<Inputs, idx>>

\* maybe_write_param(f, "message", self.message.as_ref(), &mut no_params)?
FmtMessage ==
    /\ At("message")
    /\ LET r == maybe_write_param(w, <<LitMessage>>, message, no_params)
       IN  Propagate(r.w, pc + 1) /\ no_params' = r.no_params
    /\ fields' = IF message = <<>> THEN fields
                 ELSE Append(fields, Call(<<LitMessage>>, DisplayParam(message[1])))
    /\ UNCHANGED <<Inputs, idx>>

\* one iteration of: for (key, value) in self.extras.serialize_params()
FmtExtra ==
    /\ At("extras")
    /\ idx <= Len(extras)
    /\ LET pair == extras[idx]
           r == write_param(w, pair.key, DisplayEncoder(pair.value), no_params)
       IN  /\ Propagate(r.w, pc)
           /\ no_params' = r.no_params
           /\ fields' = Append(fields, Call(pair.key, DisplayEncoder(pair.value)))
    /\ idx' = idx + 1
    /\ UNCHANGED Inputs

\* the iterator is exhausted: Ok(())
FmtReturn ==
    /\ At("extras")
    /\ idx > Len(extras)
    /\ ret' = "Ok"
    /\ UNCHANGED <<Inputs, w, no_params, pc, idx, fields>>

Init ==
    /\ address \in Addresses
    /\ alternate \in BOOLEAN
    /\ amount \in Amounts
    /\ label \in Labels
    /\ message \in Messages
    /\ extras \in ExtrasLists
    /\ failOn \in 0..MaxFailOn
    /\ w = EmptySink
    /\ no_params = TRUE
    /\ pc = 1
    /\ idx = 1
    /\ ret = "running"
    /\ fields = <<>>
    /\ cin = NoProbe
    /\ cout = NoOutput

Next ==
    \/ FmtAddress
    \/ FmtAmount
    \/ FmtLabel
    \/ FmtMessage
    \/ FmtExtra
    \/ FmtReturn

Spec == Init /\ [][Next]_vars

-----------------------------------------------------------------------------
(* The encoders applied to one input each *)

Seqs(alphabet, n) == UNION {[1..k -> alphabet] : k \in 0..n}

\* A % space & = 4 1, e-acute (2 bytes), euro sign (3 bytes), U+1F600 (4 bytes)
TextAlphabet == {65, 37, 32, 38, 61, 52, 49, 233, 8364, 128512}

\* % 2 f F / 4 1 A space
SourceAlphabet == {37, 50, 102, 70, 47, 52, 49, 65, 32}

\* an encoded source is what percent_decode_str accepted: every % starts a %XX
RECURSIVE ValidEncoded(_)
ValidEncoded(s) ==
    IF s = <<>> THEN TRUE
    ELSE IF Head(s) = PERCENT
         THEN /\ Len(s) >= 3
              /\ IsHexDigit(s[2])
              /\ IsHexDigit(s[3])
              /\ ValidEncoded(SubSeq(s, 4, Len(s)))
         ELSE ValidEncoded(Tail(s))

Sources == {s \in Seqs(SourceAlphabet, MaxTextLen) : ValidEncoded(s)}

ProbeInputs ==
    {[kind |-> "byte", data |-> <<b>>] : b \in 0..255}
    \cup {[kind |-> "text", data |-> t] : t \in Seqs(TextAlphabet, MaxTextLen)}
    \cup {[kind |-> "source", data |-> s] : s \in Sources}

Rendering == <<address, alternate, amount, label, message, extras, failOn, w,
               no_params, pc, idx, ret, fields>>

\* percent_encode(bytes, &ASCII_SET) of one byte, written to an empty sink
EncodeByte ==
    /\ cin.kind = "byte"
    /\ ~cout.done
    /\ cout' = [done |-> TRUE,
                must |-> ShouldPercentEncode(cin.data[1]),
                enc |-> UnencodedBytes_fmt(EmptySink, cin.data).out]
    /\ UNCHANGED <<Rendering, cin>>

\* WriterEncoder(sink).write_str(text) to an empty sink
EncodeText ==
    /\ cin.kind = "text"
    /\ ~cout.done
    /\ cout' = [done |-> TRUE, must |-> FALSE,
                enc |-> WriterEncoder_write_str(EmptySink, cin.data).out]
    /\ UNCHANGED <<Rendering, cin>>

\* DisplayParam of an EncodedBorrowed Param, written to an empty sink
RenderSource ==
    /\ cin.kind = "source"
    /\ ~cout.done
    /\ cout' = [done |-> TRUE, must |-> FALSE,
                enc |-> DisplayParam_fmt(EmptySink, Param("EncodedBorrowed", cin.data)).out]
    /\ UNCHANGED <<Rendering, cin>>

InitCodec ==
    /\ address = [normal |-> <<65, 68, 68, 82>>, alt |-> <<65, 68, 68, 82>>]
    /\ alternate = FALSE
    /\ amount = <<>>
    /\ label = <<>>
    /\ message = <<>>
    /\ extras = <<>>
    /\ failOn = 0
    /\ w = EmptySink
    /\ no_params = TRUE
    /\ pc = 1
    /\ idx = 1
    /\ ret = "running"
    /\ fields = <<>>
    /\ cin \in ProbeInputs
    /\ cout = NoOutput

NextCodec ==
    \/ EncodeByte
    \/ EncodeText
    \/ RenderSource

SpecCodec == InitCodec /\ [][NextCodec]_vars

-----------------------------------------------------------------------------
(* What the properties are stated with *)

Count(s, c) == Cardinality({i \in DOMAIN s : s[i] = c})

Min(a, b) == IF a < b THEN a ELSE b
Max(a, b) == IF a > b THEN a ELSE b

RECURSIVE SumOver(_, _, _)
SumOver(F(_), s, i) == IF i > Len(s) THEN 0 ELSE F(s[i]) + SumOver(F, s, i + 1)

IsPrefix(p, s) == Len(p) <= Len(s) /\ SubSeq(s, 1, Len(p)) = p

\* the characters the specification exempts from encoding: - . _ ~ ! $ ' ( ) * + , ; : @ / ?
ExemptChars == {45, 46, 95, 126, 33, 36, 39, 40, 41, 42, 43, 44, 59, 58, 64, 47, 63}

IsLetter(b) == b \in (65..90) \cup (97..122)
IsDigit(b) == b \in 48..57
IsUpperHex(b) == b \in (48..57) \cup (65..70)

UpperHexDigits == <<48, 49, 50, 51, 52, 53, 54, 55, 56, 57, 65, 66, 67, 68, 69, 70>>

\* the encoding the specification prescribes for one byte
CanonByte(b) ==
    IF IsLetter(b) \/ IsDigit(b) \/ b \in ExemptChars THEN <<b>>
    ELSE <<37, UpperHexDigits[(b \div 16) + 1], UpperHexDigits[(b % 16) + 1]>>

RECURSIVE CanonEncode(_)
CanonEncode(bytes) ==
    IF bytes = <<>> THEN <<>> ELSE CanonByte(Head(bytes)) \o CanonEncode(Tail(bytes))

\* text made of letters, digits, exempt characters and %XX with uppercase hex only
RECURSIVE IsEncodedText(_)
IsEncodedText(s) ==
    IF s = <<>> THEN TRUE
    ELSE IF Head(s) = 37
         THEN /\ Len(s) >= 3
              /\ IsUpperHex(s[2])
              /\ IsUpperHex(s[3])
              /\ IsEncodedText(SubSeq(s, 4, Len(s)))
         ELSE /\ IsLetter(Head(s)) \/ IsDigit(Head(s)) \/ Head(s) \in ExemptChars
              /\ IsEncodedText(Tail(s))

\* a standard UTF-8 decoder
RECURSIVE Utf8Decode(_)
Utf8Decode(b) ==
    IF b = <<>> THEN <<>>
    ELSE IF b[1] < 128 THEN <<b[1]>> \o Utf8Decode(Tail(b))
    ELSE IF b[1] < 224 /\ Len(b) >= 2
         THEN <<(b[1] - 192) * 64 + (b[2] - 128)>> \o Utf8Decode(SubSeq(b, 3, Len(b)))
    ELSE IF b[1] < 240 /\ Len(b) >= 3
         THEN <<(b[1] - 224) * 4096 + (b[2] - 128) * 64 + (b[3] - 128)>>
              \o Utf8Decode(SubSeq(b, 4, Len(b)))
    ELSE IF Len(b) >= 4
         THEN <<(b[1] - 240) * 262144 + (b[2] - 128) * 4096 + (b[3] - 128) * 64
                + (b[4] - 128)>> \o Utf8Decode(SubSeq(b, 5, Len(b)))
    ELSE <<65533>>

KeyText(key) == Utf8(Flatten(key))
HasEq(key) == EQSIGN \in Elems(Flatten(key))

\* the raw bytes a value stands for
RawValue(value) ==
    IF value.kind = "DisplayEncoder" THEN Utf8(Flatten(value.inner))
    ELSE IF value.inner.tag = "EncodedBorrowed" THEN PercentDecode(Utf8(value.inner.data))
    ELSE IF value.inner.tag = "UnencodedBytes" THEN value.inner.data
    ELSE Utf8(value.inner.data)

AddressText == Utf8(IF alternate THEN address.alt ELSE address.normal)
Preamble == LitBitcoin \o AddressText

\* the present fields of the Uri, in the order the specification prescribes
PresentFields ==
    (IF amount = <<>> THEN <<>>
     ELSE <<[key |-> <<LitAmount>>, value |-> DisplayEncoder(amount[1])]>>)
    \o (IF label = <<>> THEN <<>>
        ELSE <<[key |-> <<LitLabel>>, value |-> DisplayParam(label[1])]>>)
    \o (IF message = <<>> THEN <<>>
        ELSE <<[key |-> <<LitMessage>>, value |-> DisplayParam(message[1])]>>)
    \o [i \in 1..Len(extras) |->
           [key |-> extras[i].key, value |-> DisplayEncoder(extras[i].value)]]

ExpectedField(f, first) ==
    <<IF first THEN QMARK ELSE AMP>> \o KeyText(f.key) \o <<EQSIGN>>
    \o CanonEncode(RawValue(f.value))

RECURSIVE ExpectedFrom(_, _)
ExpectedFrom(fs, i) ==
    IF i > Len(fs) THEN <<>> ELSE ExpectedField(fs[i], i = 1) \o ExpectedFrom(fs, i + 1)

ExpectedOutput == Preamble \o ExpectedFrom(PresentFields, 1)

\* the calls of write_param so far, as fields
Written == [i \in 1..Len(fields) |-> [key |-> fields[i].key, value |-> fields[i].value]]

\* where the sink's text of the i-th write_param call ends
FieldEnd(i) == IF i < Len(fields) THEN fields[i + 1].at ELSE Len(w.out)
\* what the i-th write_param call wrote
FieldText(i) == SubSeq(w.out, fields[i].at + 1, FieldEnd(i))
\* what it wrote after the separator, the key and the "="
ValueText(i) == SubSeq(w.out, fields[i].at + Len(KeyText(fields[i].key)) + 3, FieldEnd(i))
\* the i-th call returned Ok
Completed(i) == i < Len(fields) \/ w.res = "ok"

SinkFailed == failOn > 0 /\ w.calls >= failOn

QmarksIn(f) == Count(KeyText(f.key), QMARK) + Count(RawValue(f.value), QMARK)
AmpsInKey(f) == Count(KeyText(f.key), AMP)

\* the chunks of a key written before the first one that holds "="
RECURSIVE CleanChunks(_)
CleanChunks(key) ==
    IF key = <<>> \/ EQSIGN \in Elems(Head(key)) THEN <<>>
    ELSE <<Head(key)>> \o CleanChunks(Tail(key))

Last == fields[Len(fields)]

-----------------------------------------------------------------------------
(* Properties *)

\* C1, as stated: a render that returns Ok with k present fields wrote exactly
\* min(k,1) "?" and exactly max(k-1,0) "&", and with k = 0 just "bitcoin:" and
\* the address, whatever the key and value texts are.
C1_SeparatorCountsAsStated ==
    ret = "Ok" =>
        LET k == Len(PresentFields)
        IN  /\ Count(w.out, QMARK) = Min(k, 1)
            /\ Count(w.out, AMP) = Max(k - 1, 0)
            /\ (k = 0 => w.out = Preamble)

\* C1, amended: a render that returns Ok with k present fields wrote one
\* separator at the start of every field, "?" for the first and "&" for every
\* later one, so min(k,1) "?" and max(k-1,0) "&" as separators; the output holds
\* besides these one "?" for every "?" of a key or of a value's raw text ("?"
\* is exempt from encoding) and one "&" for every "&" of a key (keys are not
\* encoded); with k = 0 the output is just "bitcoin:" and the address.
C1_Separators ==
    ret = "Ok" =>
        LET k == Len(PresentFields)
        IN  /\ Len(fields) = k
            /\ \A i \in 1..k : w.out[fields[i].at + 1] = (IF i = 1 THEN QMARK ELSE AMP)
            /\ Count(w.out, QMARK) = Min(k, 1) + SumOver(QmarksIn, PresentFields, 1)
            /\ Count(w.out, AMP) = Max(k - 1, 0) + SumOver(AmpsInKey, PresentFields, 1)
            /\ (k = 0 => w.out = Preamble)

C1_Witness ==
    /\ ret = "Ok"
    /\ Len(PresentFields) >= 3
    /\ SumOver(QmarksIn, PresentFields, 1) > 0
    /\ SumOver(AmpsInKey, PresentFields, 1) > 0

\* C2: the fields are written in the order amount, label, message (each when
\* present) and then every extras pair in the order yielded, none dropped,
\* reordered or deduplicated: at any time the write_param calls made are a
\* prefix of that list, and a render that returns Ok wrote exactly that list.
C2_Order ==
    /\ IsPrefix(Written, PresentFields)
    /\ ret = "Ok" => Written = PresentFields /\ w.out = ExpectedOutput

C2_Witness ==
    /\ ret = "Ok"
    /\ amount = <<>>
    /\ label # <<>>
    /\ message # <<>>
    /\ Len(extras) = 2
    /\ extras[1] = extras[2]

\* C3: a key whose text holds "=" ends the render in a panic that carries the
\* key (unless the sink failed first), and at the panic neither the "=" after
\* the key nor any character of the value has been written for that field.
C3_KeySafety ==
    \A i \in DOMAIN fields :
        HasEq(fields[i].key) =>
            /\ i = Len(fields)
            /\ \/ w.res = "err"
               \/ /\ ret = "panic"
                  /\ w.msg = PanicMessage(fields[i].key)
                  /\ EQSIGN \notin Elems(FieldText(i))
                  /\ IsPrefix(SubSeq(FieldText(i), 2, Len(FieldText(i))),
                              KeyText(fields[i].key))

C3_Witness ==
    /\ ret = "panic"
    /\ Len(fields) >= 2
    /\ Len(Last.key) = 2

\* C4, as stated: at the panic the sink holds exactly what it held before
\* write_param was called for the pair: no separator, no prefix of the key.
C4_NothingWrittenAsStated ==
    ret = "panic" => w.out = Last.before

\* C4, amended: at the panic the sink holds what it held before write_param
\* was called for the pair, then the field's separator ("?" or "&"), then the
\* chunks of the key written before the first chunk that holds "="; for a key
\* written in one chunk such as "a=b" that is the separator alone.
C4_SeparatorWritten ==
    ret = "panic" =>
        /\ w.out = Last.before \o <<IF Last.np THEN QMARK ELSE AMP>>
                   \o Utf8(Flatten(CleanChunks(Last.key)))
        /\ (Len(Last.key) = 1 => Len(w.out) = Len(Last.before) + 1)

C4_Witness ==
    /\ ret = "panic"
    /\ Last.key = <<(<<97, 61, 98>>)>>
    /\ ~Last.np

\* C5: a byte is marked for encoding iff it is no ASCII letter, no ASCII digit
\* and none of the 17 exempt characters; "&", "=", "%", space and every byte
\* >= 0x80 are marked; a marked byte is written as "%" and two uppercase hex
\* digits, every other byte unchanged.
C5_Policy ==
    (cout.done /\ cin.kind = "byte") =>
        LET b == cin.data[1]
        IN  /\ cout.must <=> ~(IsLetter(b) \/ IsDigit(b) \/ b \in ExemptChars)
            /\ cout.must =>
                   cout.enc = <<37, UpperHexDigits[(b \div 16) + 1],
                                UpperHexDigits[(b % 16) + 1]>>
            /\ ~cout.must => cout.enc = <<b>>
            /\ (b \in {38, 61, 37, 32} \/ b >= 128) => cout.must
            /\ Cardinality(ExemptChars) = 17

C5_Witness ==
    /\ cout.done
    /\ cin.kind = "byte"
    /\ cin.data[1] = 200
    /\ cout.must

\* C6: for every extras pair, the renderer writes the separator, the key's text
\* verbatim, "=", and the value's raw text percent-encoded exactly once, so "%"
\* in a value comes out as "%25"; the pairs ("foo","bar"), ("baz","qux") alone
\* with address ADDR render as "bitcoin:ADDR?foo=bar&baz=qux".
C6_ExtrasEncodedOnce ==
    /\ \A i \in DOMAIN fields :
           LET j == i - (Len(fields) - (idx - 1))
           IN  (j >= 1 /\ Completed(i)) =>
                   /\ FieldText(i) = <<IF fields[i].np THEN QMARK ELSE AMP>>
                                     \o Utf8(Flatten(extras[j].key)) \o <<EQSIGN>>
                                     \o CanonEncode(Utf8(Flatten(extras[j].value)))
                   /\ (extras[j].value = << <<53, 37>>, <<233, 61, 38>> >> =>
                          ValueText(i) = <<53, 37, 50, 53, 37, 67, 51, 37, 65, 57,
                                           37, 51, 68, 37, 50, 54>>)
    /\ ( /\ ret = "Ok"
         /\ PresentFields = <<[key |-> <<(<<102, 111, 111>>)>>,
                               value |-> DisplayEncoder(<<(<<98, 97, 114>>)>>)],
                              [key |-> <<(<<98, 97, 122>>)>>,
                               value |-> DisplayEncoder(<<(<<113, 117, 120>>)>>)]>>
         /\ AddressText = <<65, 68, 68, 82>> )
       => w.out = LitBitcoin \o <<65, 68, 68, 82, 63, 102, 111, 111, 61, 98, 97, 114,
                                  38, 98, 97, 122, 61, 113, 117, 120>>

C6_Witness ==
    /\ ret = "Ok"
    /\ Len(extras) = 2
    /\ extras[1].value = <<(<<98, 97, 114>>)>>
    /\ extras[2].value = << <<53, 37>>, <<233, 61, 38>> >>

\* C7: for every text without "&" and "=", percent-decoding (and reading as
\* UTF-8) what the WriterEncoder wrote for it gives the text back.
C7_RoundTrip ==
    (cout.done /\ cin.kind = "text" /\ AMP \notin Elems(cin.data)
     /\ EQSIGN \notin Elems(cin.data)) =>
        Utf8Decode(PercentDecode(cout.enc)) = cin.data

C7_Witness ==
    /\ cout.done
    /\ cin.kind = "text"
    /\ cin.data = <<37, 233, 128512>>

\* C8: once a sink write fails the render returns Err and makes no further
\* write; Err is returned only then; a panic happens only for a key with "="
\* and never after a sink failure; with no sink failure and no such key the
\* render goes on until it returns Ok with the complete output written.
C8_SinkFailure ==
    /\ (w.res = "err") <=> (ret = "Err")
    /\ (w.res = "panic") <=> (ret = "panic")
    /\ SinkFailed => w.res = "err" /\ w.calls = failOn
    /\ ret = "Err" => SinkFailed
    /\ ret = "panic" => ~SinkFailed /\ \E i \in DOMAIN extras : HasEq(extras[i].key)
    /\ ret = "Ok" =>
           /\ w.out = ExpectedOutput
           /\ ~SinkFailed
           /\ \A i \in DOMAIN extras : ~HasEq(extras[i].key)
    /\ ret = "running" => pc \in DOMAIN FmtSteps

C8_Witness ==
    /\ ret = "Err"
    /\ Len(fields) = 2
    /\ w.calls = failOn

\* C9: the value text written for any field (the amount, a Param in any of its
\* three representations, an extras value) holds no raw "&" and no raw "=" and
\* is made of letters, digits, exempt characters and "%XX" with uppercase hex
\* only; so while no key held "=" and no write failed, the output after the
\* address holds as many "=" as fields were written.
C9_ValuesEncoded ==
    /\ \A i \in DOMAIN fields :
           /\ IsEncodedText(ValueText(i))
           /\ AMP \notin Elems(ValueText(i))
           /\ EQSIGN \notin Elems(ValueText(i))
    /\ w.res = "ok" =>
           Count(SubSeq(w.out, Len(Preamble) + 1, Len(w.out)), EQSIGN) = Len(fields)

C9_Witness ==
    /\ ret = "Ok"
    /\ amount # <<>>
    /\ label # <<>> /\ label[1].tag = "EncodedBorrowed"
    /\ message # <<>> /\ AMP \in Elems(message[1].data)
    /\ Len(extras) >= 1

\* the %XX of an encoded source with their hex digits in upper case
RECURSIVE UpperHexCase(_)
UpperHexCase(s) ==
    IF s = <<>> THEN <<>>
    ELSE IF Head(s) = 37 /\ Len(s) >= 3
         THEN <<37, UpperHexDigits[HexValue(s[2]) + 1], UpperHexDigits[HexValue(s[3]) + 1]>>
              \o UpperHexCase(SubSeq(s, 4, Len(s)))
         ELSE <<Head(s)>> \o UpperHexCase(Tail(s))

\* C10: an EncodedBorrowed Param over the encoded source S renders as the
\* UnencodedBytes Param holding decode(S) does: the text does not depend on the
\* casing of the hex digits of S nor on redundant encodings in it ("%2f", "%2F"
\* and "/" render as "/", "%41" renders as "A").
C10_Canonical ==
    (cout.done /\ cin.kind = "source") =>
        /\ cout.enc = UnencodedBytes_fmt(EmptySink, PercentDecode(Utf8(cin.data))).out
        /\ cout.enc = CanonEncode(PercentDecode(Utf8(UpperHexCase(cin.data))))
        /\ cin.data \in {<<37, 50, 102>>, <<37, 50, 70>>, <<47>>} => cout.enc = <<47>>
        /\ cin.data = <<37, 52, 49>> => cout.enc = <<65>>

C10_Witness ==
    /\ cout.done
    /\ cin.kind = "source"
    /\ cin.data = <<37, 50, 102>>

====
